---- MODULE Spec2Model ----
(***************************************************************************)
(* Record linkage of the Goodreads and Story Graph catalogues:             *)
(* BookDataIntegrator.process / join_dataframes                            *)
(* (src/book_data_integrator.py).                                          *)
(*                                                                         *)
(* A text is a sequence of one-character strings, so that lower-casing and *)
(* the similarity score are computed and not assumed.  A cell of a         *)
(* DataFrame is a record [kind, val]: kind "null" (NaN / None / pd.NA),    *)
(* "str" (val is a text) or "list" (val is a sequence of texts).           *)
(***************************************************************************)
EXTENDS Integers, Sequences, FiniteSets, TLC

(***************************************************************************)
(* Texts                                                                   *)
(***************************************************************************)
UpperCase == <<"A","B","C","D","E","F","G","H","I","J","K","L","M",
               "N","O","P","Q","R","S","T","U","V","W","X","Y","Z">>

LowerCase == <<"a","b","c","d","e","f","g","h","i","j","k","l","m",
               "n","o","p","q","r","s","t","u","v","w","x","y","z">>

\* str.lower() on one character
LowerChar(c) ==
    IF \E i \in 1..Len(UpperCase) : UpperCase[i] = c
    THEN LowerCase[CHOOSE i \in 1..Len(UpperCase) : UpperCase[i] = c]
    ELSE c

\* str.lower()
Lower(s) == [i \in 1..Len(s) |-> LowerChar(s[i])]

\* s[lo:hi], Python slice with 0 <= lo (hi is clipped to len(s))
Slice(s, lo, hi) ==
    LET h == IF hi > Len(s) THEN Len(s) ELSE hi
    IN  IF h <= lo THEN <<>> ELSE [i \in 1..(h - lo) |-> s[lo + i]]

(***************************************************************************)
(* fuzz.partial_ratio, as fuzzywuzzy computes it over difflib's            *)
(* SequenceMatcher (no junk; indices are 0-based as in Python).            *)
(***************************************************************************)
\* F applied to the value of v (v is evaluated once, as an assignment does)
Bind(v, F(_)) == CHOOSE y \in {F(x) : x \in {v}} : TRUE

\* the largest element of a non-empty set of integers
Max(S) == Bind(S, LAMBDA T : CHOOSE x \in T : \A y \in T : y <= x)

\* the smallest element of a non-empty set of integers
Min(S) == Bind(S, LAMBDA T : CHOOSE x \in T : \A y \in T : x <= y)

\* length of the common run a[i:] / b[j:] inside a[:ahi], b[:bhi]
MatchLen(a, b, i, j, ahi, bhi) ==
    CHOOSE k \in 0..Min({ahi - i, bhi - j}) :
        /\ \A d \in 1..k : a[i + d] = b[j + d]
        /\ \/ i + k = ahi
           \/ j + k = bhi
           \/ a[i + k + 1] # b[j + k + 1]

\* SequenceMatcher.find_longest_match(alo, ahi, blo, bhi): the longest block,
\* of those the one starting earliest in a, of those the earliest in b
find_longest_match(a, b, alo, ahi, blo, bhi) ==
    Bind({<<i, j, MatchLen(a, b, i, j, ahi, bhi)>> :
             i \in alo..(ahi - 1), j \in blo..(bhi - 1)},
         LAMBDA runs :
    Bind(Max({0} \cup {m[3] : m \in runs}),
         LAMBDA k :
             IF k = 0 THEN <<alo, blo, 0>>
             ELSE Bind(Min({m[1] : m \in {x \in runs : x[3] = k}}),
                       LAMBDA i :
                           <<i,
                             Min({m[2] : m \in {x \in runs :
                                                   x[3] = k /\ x[1] = i}}),
                             k>>)))

RECURSIVE matching_blocks(_, _, _, _, _, _)
\* the recursion of SequenceMatcher.get_matching_blocks on a[alo:ahi], b[blo:bhi]
matching_blocks(a, b, alo, ahi, blo, bhi) ==
    Bind(find_longest_match(a, b, alo, ahi, blo, bhi),
         LAMBDA m :
             IF m[3] = 0 THEN {}
             ELSE {m}
                  \cup (IF alo < m[1] /\ blo < m[2]
                        THEN matching_blocks(a, b, alo, m[1], blo, m[2])
                        ELSE {})
                  \cup (IF m[1] + m[3] < ahi /\ m[2] + m[3] < bhi
                        THEN matching_blocks(a, b, m[1] + m[3], ahi,
                                             m[2] + m[3], bhi)
                        ELSE {}))

\* SequenceMatcher.get_matching_blocks(): the blocks and the closing
\* (len(a), len(b), 0) sentinel
get_matching_blocks(a, b) ==
    matching_blocks(a, b, 0, Len(a), 0, Len(b)) \cup {<<Len(a), Len(b), 0>>}

\* sum of the sizes of the (disjoint) blocks: the positions of a they cover
matches(blocks, a) ==
    Cardinality({i \in 0..(Len(a) - 1) :
                    \E m \in blocks : m[1] <= i /\ i < m[1] + m[3]})

\* SequenceMatcher.ratio() = 2.0 * matches / (len(a) + len(b)), kept as the
\* fraction <<numerator, denominator>>; 1.0 when both are empty
ratio(s1, s2) ==
    Bind(<<s1, s2>>, LAMBDA s :
        IF Len(s[1]) + Len(s[2]) = 0 THEN <<1, 1>>
        ELSE <<2 * matches(get_matching_blocks(s[1], s[2]), s[1]),
               Len(s[1]) + Len(s[2])>>)

\* utils.intr(100 * r) = int(round(100 * r)), Python 3 rounding (half to even)
intr100(r) ==
    LET n == 100 * r[1]
        q == n \div r[2]
        rem == n % r[2]
    IN  IF 2 * rem > r[2] THEN q + 1
        ELSE IF 2 * rem < r[2] THEN q
        ELSE IF q % 2 = 0 THEN q ELSE q + 1

\* the body of fuzz.partial_ratio, s = <<shorter, longer>>
partial_ratio_of(s) ==
    Bind({ratio(s[1], Slice(s[2], long_start, long_start + Len(s[1]))) :
             \* long_start of a block: block[1] - block[0] if positive, else 0
             long_start \in {IF block[2] - block[1] > 0
                             THEN block[2] - block[1] ELSE 0 :
                                 block \in get_matching_blocks(s[1], s[2])}},
         LAMBDA scores :
             \* max(scores), with the r > .995 early return
             Bind(CHOOSE x \in scores :
                      \A y \in scores : y[1] * x[2] <= x[1] * y[2],
                  LAMBDA r :
                      IF 1000 * r[1] > 995 * r[2] THEN 100 ELSE intr100(r)))

partial_ratio(s1, s2) ==
    Bind(<<s1, s2>>, LAMBDA s :
        IF s[1] = s[2] THEN 100                       \* utils.check_for_equivalence
        ELSE IF Len(s[1]) = 0 \/ Len(s[2]) = 0 THEN 0 \* utils.check_empty_string
        ELSE IF Len(s[1]) <= Len(s[2])
             THEN partial_ratio_of(<<s[1], s[2]>>)
             ELSE partial_ratio_of(<<s[2], s[1]>>))

(***************************************************************************)
(* Cells and the texts of the catalogues                                   *)
(***************************************************************************)
\* NaN / None / pd.NA
Null == [kind |-> "null", val |-> <<>>]

Str(t) == [kind |-> "str", val |-> t]

\* a Python list of strings
List(ts) == [kind |-> "list", val |-> ts]

\* ''
EmptyText == <<>>

\* 'both', the value of the _merge column of an inner join
Both == <<"b","o","t","h">>

\* "123"
Isbn123 == <<"1","2","3">>
\* "456"
Isbn456 == <<"4","5","6">>
\* "789"
Isbn789 == <<"7","8","9">>
\* "Dune"
Dune == <<"D","u","n","e">>
\* "DUNE"
DUNE == <<"D","U","N","E">>
\* "Red Mars"
RedMars == <<"R","e","d"," ","M","a","r","s">>
\* "Blue Mars"
BlueMars == <<"B","l","u","e"," ","M","a","r","s">>
\* "The Lost World"
TheLostWorld == <<"T","h","e"," ","L","o","s","t"," ","W","o","r","l","d">>
\* "The Old Lost World"
TheOldLostWorld == <<"T","h","e"," ","O","l","d"," ","L","o","s","t"," ","W","o","r","l","d">>
\* "Red Mars: The Lost World"
RedMarsTheLostWorld == <<"R","e","d"," ","M","a","r","s",":"," ","T","h","e"," ","L","o","s","t"," ","W","o","r","l","d">>
\* "Frank Herbert"
FrankHerbert == <<"F","r","a","n","k"," ","H","e","r","b","e","r","t">>
\* "F. Herbert"
FHerbert == <<"F","."," ","H","e","r","b","e","r","t">>
\* "Herbert"
Herbert == <<"H","e","r","b","e","r","t">>
\* "Jane Doe"
JaneDoe == <<"J","a","n","e"," ","D","o","e">>
\* "Other"
Other == <<"O","t","h","e","r">>
\* "Octavia Butler"
OctaviaButler == <<"O","c","t","a","v","i","a"," ","B","u","t","l","e","r">>
\* "Octavia E. Butler"
OctaviaEButler == <<"O","c","t","a","v","i","a"," ","E","."," ","B","u","t","l","e","r">>
\* "Loved this"
LovedThis == <<"L","o","v","e","d"," ","t","h","i","s">>
\* "LOVED THIS"
LOVEDTHIS == <<"L","O","V","E","D"," ","T","H","I","S">>
\* "Really enjoyed this"
ReallyEnjoyedThis == <<"R","e","a","l","l","y"," ","e","n","j","o","y","e","d"," ","t","h","i","s">>
\* "Beautifully written"
BeautifullyWritten == <<"B","e","a","u","t","i","f","u","l","l","y"," ","w","r","i","t","t","e","n">>
\* "Beautifully not written"
BeautifullyNotWritten == <<"B","e","a","u","t","i","f","u","l","l","y"," ","n","o","t"," ","w","r","i","t","t","e","n">>

(***************************************************************************)
(* Bounds and the records the two catalogues are drawn from                *)
(***************************************************************************)
\* most rows of the two frames together
MaxRows == 5

\* most calls of process() on one integrator, and most rows of the two
\* frames together when process() is called more than once
MaxCalls == 2

MaxRowsAgain == 4

\* records GoodreadsMdProcessor yields: isbn is a string, '' or absent;
\* author is a string, a list or absent (filter_data keeps either shape)
GoodreadsPool == <<
    [isbn |-> Str(Isbn123), title |-> Str(Dune),
     author |-> Str(FrankHerbert), review |-> Null],
    [isbn |-> Str(EmptyText), title |-> Str(RedMars),
     author |-> Str(FrankHerbert), review |-> Null],
    [isbn |-> Null, title |-> Str(TheLostWorld),
     author |-> List(<<JaneDoe, OctaviaButler>>), review |-> Str(LovedThis)],
    [isbn |-> Str(Isbn456), title |-> Null,
     author |-> Null, review |-> Str(BeautifullyWritten)] >>

\* records StoryGraphExportCleaner.process_file yields: Authors is always a
\* list (possibly empty), ISBN/Title/Review are 'string' cells or pd.NA
StoryGraphPool == <<
    [ISBN |-> Str(Isbn123), Title |-> Str(DUNE),
     Authors |-> List(<<FrankHerbert>>), Review |-> Null],
    [ISBN |-> Null, Title |-> Str(BlueMars),
     Authors |-> List(<<FHerbert>>), Review |-> Null],
    [ISBN |-> Str(Isbn789), Title |-> Str(TheOldLostWorld),
     Authors |-> List(<<OctaviaEButler, Herbert>>),
     Review |-> Str(ReallyEnjoyedThis)],
    [ISBN |-> Null, Title |-> Null,
     Authors |-> List(<<>>), Review |-> Str(BeautifullyNotWritten)],
    [ISBN |-> Null, Title |-> Str(RedMarsTheLostWorld),
     Authors |-> List(<<Other, JaneDoe>>), Review |-> Str(LOVEDTHIS)] >>

\* a DataFrame with a RangeIndex: row i carries the label i - 1
Frame(pool, choice) ==
    [i \in 1..Len(choice) |-> [index |-> i - 1] @@ pool[choice[i]]]

\* the frames the two collaborators can hand over (make_goodreads_df reads
\* df.iloc[0], so the Goodreads frame it returns has at least one row)
InputFramesOf(rows) ==
    {<<Frame(GoodreadsPool, g), Frame(StoryGraphPool, s)>> :
        <<g, s>> \in UNION {
            [1..n -> 1..Len(GoodreadsPool)] \X [1..m -> 1..Len(StoryGraphPool)] :
                <<n, m>> \in {p \in (1..rows) \X (0..rows) :
                                 p[1] + p[2] <= rows}}}

InputFrames == InputFramesOf(MaxRows)

InputFramesAgain == InputFramesOf(MaxRowsAgain)

\* an attribute still None
None == <<[none |-> TRUE]>>

(***************************************************************************)
(* The scores of the texts of the two pools, computed once: partial_ratio  *)
(* is a pure function and the loop asks for the same pairs again and again *)
(***************************************************************************)
\* the lower-cased strings of a cell (of a str cell, or of the items of a list)
lowered(cell) ==
    IF cell.kind = "str" THEN {Lower(cell.val)}
    ELSE IF cell.kind = "list"
    THEN {Lower(cell.val[i]) : i \in 1..Len(cell.val)}
    ELSE {}

\* the (Story Graph text, Goodreads text) pairs the loop can compare
compared ==
    UNION {(lowered(s.Title) \X lowered(g.title))
           \cup (lowered(s.Review) \X lowered(g.review))
           \cup (lowered(s.Authors) \X lowered(g.author)) :
               s \in {StoryGraphPool[i] : i \in 1..Len(StoryGraphPool)},
               g \in {GoodreadsPool[i] : i \in 1..Len(GoodreadsPool)}}

scores == {<<p, partial_ratio(p[1], p[2])>> : p \in compared}

\* fuzz.partial_ratio(s1, s2), read from scores where it is there
fuzz_partial_ratio(s1, s2) ==
    Bind(<<s1, s2>>, LAMBDA p :
        IF \E e \in scores : e[1] = p
        THEN (CHOOSE e \in scores : e[1] = p)[2]
        ELSE partial_ratio(p[1], p[2]))

(***************************************************************************)
(* pandas and the predicates of the fuzzy loop                             *)
(***************************************************************************)
\* Series.notna() / Series.notnull()
notna(cell) == cell.kind # "null"

\* the mask of lines 86-90 and 96-100: notna() & (!= '') & notnull()
isbn_mask(cell) == notna(cell) /\ cell # Str(EmptyText) /\ notna(cell)

\* one row of merged_df: the columns of both rows and the _merge indicator
\* (goodreads_index and story_graph_index record the labels of the rows it
\* was built from)
joined_row(goodreads_row, story_row, indicator) ==
    [goodreads_index   |-> goodreads_row.index,
     story_graph_index |-> story_row.index,
     goodreads_isbn    |-> goodreads_row.goodreads_isbn,
     goodreads_title   |-> goodreads_row.goodreads_title,
     author            |-> goodreads_row.author,
     goodreads_review  |-> goodreads_row.goodreads_review,
     story_graph_isbn  |-> story_row.story_graph_isbn,
     story_graph_Title |-> story_row.story_graph_Title,
     Authors           |-> story_row.Authors,
     story_graph_Review |-> story_row.story_graph_Review,
     indicator         |-> indicator]

RECURSIVE concat(_)
\* pd.concat of a sequence of frames
concat(frames) ==
    IF frames = <<>> THEN <<>> ELSE Head(frames) \o concat(Tail(frames))

\* a join that keeps the first right row only ("first match wins")
merge_matches_first(goodreads_row, right) ==
    LET hits == SelectSeq(right, LAMBDA story_row :
                    goodreads_row.goodreads_isbn = story_row.story_graph_isbn)
    IN  IF hits = <<>> THEN <<>> ELSE <<Head(hits)>>

\* the right rows a left row is joined with
merge_matches(goodreads_row, right) ==
    SelectSeq(right, LAMBDA story_row :
                  goodreads_row.goodreads_isbn = story_row.story_graph_isbn)

\* pd.merge(left, right, left_on='goodreads_isbn', right_on='story_graph_isbn',
\*          how='inner', indicator=True): every pair of rows with equal keys,
\* in the order of the left rows
pd_merge(left, right) ==
    concat([i \in 1..Len(left) |->
              LET hits == merge_matches(left[i], right)
              IN  [j \in 1..Len(hits) |-> joined_row(left[i], hits[j], Str(Both))]])

\* DataFrame.rename(columns=..., inplace=True): columns is a set of
\* <<old, new>> names; a name the frame does not have is ignored
rename(df, columns) ==
    [i \in 1..Len(df) |->
        LET row == df[i]
            renamed(k) == IF \E c \in columns : c[1] = k
                          THEN (CHOOSE c \in columns : c[1] = k)[2]
                          ELSE k
        IN  [n \in {renamed(k) : k \in DOMAIN row} |->
                row[CHOOSE k \in DOMAIN row : renamed(k) = n]]]

\* the columns of lines 51-58 and 69-76 that the records carry
goodreads_columns ==
    {<<"title", "goodreads_title">>, <<"isbn", "goodreads_isbn">>,
     <<"review", "goodreads_review">>}

story_graph_columns ==
    {<<"Title", "story_graph_Title">>, <<"ISBN", "story_graph_isbn">>,
     <<"Review", "story_graph_Review">>}

\* the values of a column of merged_df
column(df, name) == {df[i][name] : i \in 1..Len(df)}

\* a leftover mask that keeps every row, joined or not
no_isbn_mask_every_row(cell, values) == TRUE

\* a leftover mask that keeps the rows without identifier only
no_isbn_mask_unkeyed(cell, values) == ~isbn_mask(cell)

\* the masks of lines 125 and 134: ~Series.isin(merged_df[column])
no_isbn_mask(cell, values) == ~(cell \in values)

\* a normalisation that drops a value that is no list
as_list_or_empty(cell) ==
    IF cell.kind = "list"
    THEN [i \in 1..Len(cell.val) |-> Str(cell.val[i])]
    ELSE <<>>

\* lines 148-149 and 155-157: x if isinstance(x, list) else [x]
as_list(cell) ==
    IF cell.kind = "list"
    THEN [i \in 1..Len(cell.val) |-> Str(cell.val[i])]
    ELSE <<cell>>

\* a strict comparison (> 80) in place of >= 80
ThresholdStrict == 80 + 1

\* the fixed threshold of lines 180, 184 and 193
Threshold == 80

\* lines 175, 178-180
title_match_of(title, goodreads_title) ==
    /\ title.kind = "str"
    /\ goodreads_title.kind = "str"
    /\ fuzz_partial_ratio(Lower(title.val), Lower(goodreads_title.val)) >= Threshold

\* lines 176, 182-184
review_match_of(review, goodreads_review) ==
    /\ review.kind = "str"
    /\ goodreads_review.kind = "str"
    /\ fuzz_partial_ratio(Lower(review.val), Lower(goodreads_review.val)) >= Threshold

\* the generator of lines 191-193, in its order: for ga in goodreads_authors
\* for author in authors
author_pairs(authors, goodreads_authors) ==
    concat([g \in 1..Len(goodreads_authors) |->
              [a \in 1..Len(authors) |-> <<authors[a], goodreads_authors[g]>>]])

\* author.lower() / ga.lower() on a value that is no str: AttributeError
pair_raises(p) == p[1].kind # "str" \/ p[2].kind # "str"

pair_matches(p) ==
    /\ ~pair_raises(p)
    /\ fuzz_partial_ratio(Lower(p[1].val), Lower(p[2].val)) >= Threshold

\* all() in place of any(): every cross pair has to match
author_match_all(authors, goodreads_authors) ==
    IF Len(authors) = 0 \/ Len(goodreads_authors) = 0
    THEN [raised |-> FALSE, value |-> FALSE]
    ELSE LET pairs == author_pairs(authors, goodreads_authors)
         IN  IF \E k \in 1..Len(pairs) : pair_raises(pairs[k])
             THEN [raised |-> TRUE, value |-> FALSE]
             ELSE [raised |-> FALSE,
                   value |-> \A k \in 1..Len(pairs) : pair_matches(pairs[k])]

\* lines 177, 186-194: any() stops at the first pair that matches and raises
\* at a pair it reaches whose element has no lower()
author_match_of(authors, goodreads_authors) ==
    IF Len(authors) = 0 \/ Len(goodreads_authors) = 0
    THEN [raised |-> FALSE, value |-> FALSE]
    ELSE LET pairs == author_pairs(authors, goodreads_authors)
             stops == {k \in 1..Len(pairs) :
                          pair_raises(pairs[k]) \/ pair_matches(pairs[k])}
         IN  IF stops = {} THEN [raised |-> FALSE, value |-> FALSE]
             ELSE LET k == CHOOSE x \in stops : \A y \in stops : x <= y
                  IN  IF pair_raises(pairs[k])
                      THEN [raised |-> TRUE, value |-> FALSE]
                      ELSE [raised |-> FALSE, value |-> TRUE]

\* a decision without the review branch of lines 201-204
fuzzy_decision_no_review(t_match, a_match, r_match) == t_match /\ a_match

\* lines 197-204: whether the pair is appended to fuzzy_matches
fuzzy_decision(t_match, a_match, r_match) ==
    IF t_match /\ a_match THEN TRUE
    ELSE IF r_match THEN TRUE
    ELSE FALSE

\* an append that leaves out a pair when one of its records is already in a
\* pair of the list
fuzzy_append_once(found, goodreads_row, story_row, decision) ==
    IF /\ decision
       /\ \A k \in 1..Len(found) :
              /\ found[k].goodreads_index # goodreads_row.index
              /\ found[k].story_graph_index # story_row.index
    THEN Append(found, joined_row(goodreads_row, story_row, Null))
    ELSE found

\* lines 198-200 and 202-204: fuzzy_matches.append(pd.concat([goodreads_row,
\* story_row]).to_frame().T); the row has no _merge value
fuzzy_append(found, goodreads_row, story_row, decision) ==
    IF decision
    THEN Append(found, joined_row(goodreads_row, story_row, Null))
    ELSE found

VARIABLES
    goodreads_processor,  \* GoodreadsMdProcessor.df, as get_goodreads_df returns it
    input_file,           \* the rows process_file reads from the export
    story_graph_cleaner,  \* StoryGraphExportCleaner.df
    goodreads_df,         \* BookDataIntegrator.goodreads_df
    story_graph_df,       \* BookDataIntegrator.story_graph_df
    merged_df,            \* BookDataIntegrator.merged_df
    goodreads_isbn,       \* locals of join_dataframes
    storygraph_isbn,
    goodreads_no_isbn,
    storygraph_no_isbn,
    fuzzy_matches,
    story_i,              \* position of story_row in storygraph_no_isbn
    goodreads_i,          \* position of goodreads_row in goodreads_no_isbn
    title_match,
    review_match,
    author_match,
    pc,                   \* the statement process() is at
    error,                \* the exception that ended process(), or "none"
    calls,                \* the calls of process() so far
    writer_merged_df,     \* BookDataWriter.merged_df
    directory,            \* the note files GoodreadsMdProcessor reads (glob order)
    yaml_data,            \* GoodreadsMdProcessor.yaml_data
    title1,               \* locals of BookDataWriter.clean_title
    title2,
    display_title         \* what clean_title returns (title, line 227)

vars == <<goodreads_processor, input_file, story_graph_cleaner, goodreads_df,
          story_graph_df, merged_df, goodreads_isbn, storygraph_isbn,
          goodreads_no_isbn, storygraph_no_isbn, fuzzy_matches, story_i,
          goodreads_i, title_match, review_match, author_match, pc, error,
          calls, writer_merged_df, directory, yaml_data, title1, title2,
          display_title>>

\* the state of the collaborators around the integrator
others == <<directory, yaml_data, title1, title2, display_title>>

frames == <<goodreads_processor, input_file, story_graph_cleaner, goodreads_df,
            story_graph_df, calls, writer_merged_df, others>>

locals == <<goodreads_isbn, storygraph_isbn, goodreads_no_isbn,
            storygraph_no_isbn, fuzzy_matches, story_i, goodreads_i,
            title_match, review_match, author_match>>

\* BookDataIntegrator.__init__ and the inputs of the run
InitOf(inputs) ==
    /\ \E in \in inputs :
          /\ goodreads_processor = in[1]
          /\ input_file = in[2]
    /\ story_graph_cleaner = None
    /\ goodreads_df = None
    /\ story_graph_df = None
    /\ merged_df = None
    /\ goodreads_isbn = <<>>
    /\ storygraph_isbn = <<>>
    /\ goodreads_no_isbn = <<>>
    /\ storygraph_no_isbn = <<>>
    /\ fuzzy_matches = <<>>
    /\ story_i = 0
    /\ goodreads_i = 0
    /\ title_match = FALSE
    /\ review_match = FALSE
    /\ author_match = FALSE
    /\ pc = "get_goodreads_data"
    /\ error = "none"
    /\ calls = 1
    /\ writer_merged_df = None
    /\ directory = <<>>
    /\ yaml_data = <<>>
    /\ title1 = Null
    /\ title2 = Null
    /\ display_title = Null

Init == InitOf(InputFrames)

InitAgain == InitOf(InputFramesAgain)

(***************************************************************************)
(* process(): get_goodreads_data, get_story_graph_data, join_dataframes    *)
(***************************************************************************)
Raise(exception) ==
    /\ error' = exception
    /\ pc' = pc

\* lines 45-61: the processor's frame, its columns renamed in place
get_goodreads_data ==
    /\ pc = "get_goodreads_data" /\ error = "none"
    /\ LET df == rename(goodreads_processor, goodreads_columns)
       IN  /\ goodreads_df' = df
           /\ goodreads_processor' = df
    /\ pc' = "get_story_graph_data"
    /\ UNCHANGED <<input_file, story_graph_cleaner, story_graph_df, merged_df,
                   locals, error, calls, writer_merged_df, others>>

\* lines 63-79: process_file reads the export anew at every call and the
\* frame it returns is renamed in place; line 67 reads story_graph_df.iloc[0]
get_story_graph_data ==
    /\ pc = "get_story_graph_data" /\ error = "none"
    /\ IF Len(input_file) = 0
       THEN /\ story_graph_df' = input_file
            /\ story_graph_cleaner' = input_file
            /\ Raise("IndexError")
       ELSE /\ story_graph_df' = rename(input_file, story_graph_columns)
            /\ story_graph_cleaner' = story_graph_df'
            /\ pc' = "goodreads_isbn"
            /\ UNCHANGED error
    /\ UNCHANGED <<goodreads_processor, input_file, goodreads_df, merged_df,
                   locals, calls, writer_merged_df, others>>

\* lines 86-95; the logging call reads goodreads_isbn.iloc[0]
join_goodreads_isbn ==
    /\ pc = "goodreads_isbn" /\ error = "none"
    /\ goodreads_isbn' = SelectSeq(goodreads_df,
                             LAMBDA r : isbn_mask(r.goodreads_isbn))
    /\ IF goodreads_isbn' = <<>>
       THEN Raise("IndexError")
       ELSE pc' = "storygraph_isbn" /\ UNCHANGED error
    /\ UNCHANGED <<frames, merged_df, storygraph_isbn, goodreads_no_isbn,
                   storygraph_no_isbn, fuzzy_matches, story_i, goodreads_i,
                   title_match, review_match, author_match>>

\* lines 96-105; the logging call reads storygraph_isbn.iloc[0]
join_storygraph_isbn ==
    /\ pc = "storygraph_isbn" /\ error = "none"
    /\ storygraph_isbn' = SelectSeq(story_graph_df,
                              LAMBDA r : isbn_mask(r.story_graph_isbn))
    /\ IF storygraph_isbn' = <<>>
       THEN Raise("IndexError")
       ELSE pc' = "merge" /\ UNCHANGED error
    /\ UNCHANGED <<frames, merged_df, goodreads_isbn, goodreads_no_isbn,
                   storygraph_no_isbn, fuzzy_matches, story_i, goodreads_i,
                   title_match, review_match, author_match>>

\* a merge that adds its rows to the rows merged_df already holds
join_merge_accumulate ==
    /\ pc = "merge" /\ error = "none"
    /\ merged_df' = (IF merged_df = None THEN <<>> ELSE merged_df)
                        \o pd_merge(goodreads_isbn, storygraph_isbn)
    /\ IF merged_df' = <<>>
       THEN Raise("IndexError")
       ELSE pc' = "goodreads_no_isbn" /\ UNCHANGED error
    /\ UNCHANGED <<frames, locals>>

\* lines 107-121; the logging call reads merged_df.iloc[0]
join_merge ==
    /\ pc = "merge" /\ error = "none"
    /\ merged_df' = pd_merge(goodreads_isbn, storygraph_isbn)
    /\ IF merged_df' = <<>>
       THEN Raise("IndexError")
       ELSE pc' = "goodreads_no_isbn" /\ UNCHANGED error
    /\ UNCHANGED <<frames, locals>>

\* a selection of the leftovers that filters goodreads_df itself
join_goodreads_no_isbn_inplace ==
    /\ pc = "goodreads_no_isbn" /\ error = "none"
    /\ goodreads_no_isbn' =
           SelectSeq(goodreads_df, LAMBDA r :
               no_isbn_mask(r.goodreads_isbn,
                            column(merged_df, "goodreads_isbn")))
    /\ goodreads_df' = goodreads_no_isbn'
    /\ goodreads_processor' = goodreads_no_isbn'
    /\ IF goodreads_no_isbn' = <<>>
       THEN Raise("IndexError")
       ELSE pc' = "storygraph_no_isbn" /\ UNCHANGED error
    /\ UNCHANGED <<input_file, story_graph_cleaner, story_graph_df, calls,
                   writer_merged_df, others, merged_df, goodreads_isbn,
                   storygraph_isbn, storygraph_no_isbn, fuzzy_matches, story_i,
                   goodreads_i, title_match, review_match, author_match>>

\* lines 123-131; the logging call reads goodreads_no_isbn.iloc[0]
join_goodreads_no_isbn ==
    /\ pc = "goodreads_no_isbn" /\ error = "none"
    /\ goodreads_no_isbn' =
           SelectSeq(goodreads_df, LAMBDA r :
               no_isbn_mask(r.goodreads_isbn,
                            column(merged_df, "goodreads_isbn")))
    /\ IF goodreads_no_isbn' = <<>>
       THEN Raise("IndexError")
       ELSE pc' = "storygraph_no_isbn" /\ UNCHANGED error
    /\ UNCHANGED <<frames, merged_df, goodreads_isbn, storygraph_isbn,
                   storygraph_no_isbn, fuzzy_matches, story_i, goodreads_i,
                   title_match, review_match, author_match>>

\* lines 133-142; the logging call reads storygraph_no_isbn.iloc[0]
join_storygraph_no_isbn ==
    /\ pc = "storygraph_no_isbn" /\ error = "none"
    /\ storygraph_no_isbn' =
           SelectSeq(story_graph_df, LAMBDA r :
               no_isbn_mask(r.story_graph_isbn,
                            column(merged_df, "story_graph_isbn")))
    /\ fuzzy_matches' = <<>>
    /\ IF storygraph_no_isbn' = <<>>
       THEN /\ Raise("IndexError")
            /\ UNCHANGED <<story_i, goodreads_i>>
       ELSE /\ pc' = "fuzzy"
            /\ story_i' = 1
            /\ goodreads_i' = 1
            /\ UNCHANGED error
    /\ UNCHANGED <<frames, merged_df, goodreads_isbn, storygraph_isbn,
                   goodreads_no_isbn, title_match, review_match, author_match>>

\* lines 145-204: one pass of the inner loop, for the pair
\* (storygraph_no_isbn[story_i], goodreads_no_isbn[goodreads_i])
join_fuzzy_pair ==
    /\ pc = "fuzzy" /\ error = "none"
    /\ LET story_row == storygraph_no_isbn[story_i]
           goodreads_row == goodreads_no_isbn[goodreads_i]
           authors == as_list(story_row.Authors)
           goodreads_authors == as_list(goodreads_row.author)
           t == title_match_of(story_row.story_graph_Title,
                               goodreads_row.goodreads_title)
           r == review_match_of(story_row.story_graph_Review,
                                goodreads_row.goodreads_review)
           a == author_match_of(authors, goodreads_authors)
       IN  /\ title_match' = t
           /\ review_match' = r
           /\ author_match' = a.value
           /\ IF a.raised
              THEN /\ Raise("AttributeError")
                   /\ UNCHANGED <<fuzzy_matches, story_i, goodreads_i>>
              ELSE /\ fuzzy_matches' =
                          fuzzy_append(fuzzy_matches, goodreads_row, story_row,
                                       fuzzy_decision(t, a.value, r))
                   /\ IF goodreads_i < Len(goodreads_no_isbn)
                      THEN /\ goodreads_i' = goodreads_i + 1
                           /\ UNCHANGED <<story_i, pc>>
                      ELSE IF story_i < Len(storygraph_no_isbn)
                      THEN /\ goodreads_i' = 1
                           /\ story_i' = story_i + 1
                           /\ UNCHANGED pc
                      ELSE /\ pc' = "concat"
                           /\ UNCHANGED <<story_i, goodreads_i>>
                   /\ UNCHANGED error
    /\ UNCHANGED <<frames, merged_df, goodreads_isbn, storygraph_isbn,
                   goodreads_no_isbn, storygraph_no_isbn>>

\* a concat that puts the fuzzy rows before the rows of the merge
join_concat_fuzzy_first ==
    /\ pc = "concat" /\ error = "none"
    /\ merged_df' = IF fuzzy_matches # <<>>
                    THEN fuzzy_matches \o merged_df
                    ELSE merged_df
    /\ pc' = "done"
    /\ UNCHANGED <<frames, locals, error>>

\* lines 206-233: the fuzzy rows are appended to merged_df
join_concat ==
    /\ pc = "concat" /\ error = "none"
    /\ merged_df' = IF fuzzy_matches # <<>>
                    THEN merged_df \o fuzzy_matches
                    ELSE merged_df
    /\ pc' = "done"
    /\ UNCHANGED <<frames, locals, error>>

join_dataframes ==
    \/ join_goodreads_isbn
    \/ join_storygraph_isbn
    \/ join_merge
    \/ join_goodreads_no_isbn
    \/ join_storygraph_no_isbn
    \/ join_fuzzy_pair
    \/ join_concat

\* one call of process()
Next ==
    \/ get_goodreads_data
    \/ get_story_graph_data
    \/ join_dataframes

Spec == Init /\ [][Next]_vars

\* lines 240-246: a further call of process() on the same integrator, after
\* the call before it has returned; the locals of join_dataframes are new
process ==
    /\ pc = "done" /\ error = "none"
    /\ calls < MaxCalls
    /\ calls' = calls + 1
    /\ pc' = "get_goodreads_data"
    /\ goodreads_isbn' = <<>>
    /\ storygraph_isbn' = <<>>
    /\ goodreads_no_isbn' = <<>>
    /\ storygraph_no_isbn' = <<>>
    /\ fuzzy_matches' = <<>>
    /\ story_i' = 0
    /\ goodreads_i' = 0
    /\ title_match' = FALSE
    /\ review_match' = FALSE
    /\ author_match' = FALSE
    /\ UNCHANGED <<goodreads_processor, input_file, story_graph_cleaner,
                   goodreads_df, story_graph_df, merged_df, error,
                   writer_merged_df, others>>

\* lines 248-252, called by BookDataWriter.get_integrator_data (line 122)
\* after process(): merged_df is not None and is returned as it is
get_merged_df ==
    /\ pc = "done" /\ error = "none"
    /\ merged_df # None
    /\ writer_merged_df = None
    /\ writer_merged_df' = merged_df
    /\ UNCHANGED <<goodreads_processor, input_file, story_graph_cleaner,
                   goodreads_df, story_graph_df, merged_df, locals, pc, error,
                   calls, others>>

\* process() called again and again, and get_merged_df()
NextAgain ==
    \/ Next
    \/ process
    \/ get_merged_df

SpecAgain == InitAgain /\ [][NextAgain]_vars

(***************************************************************************)
(* Vocabulary of the properties                                            *)
(***************************************************************************)
\* an identifier that is present, non-null and non-empty
present(cell) == cell.kind = "str" /\ Len(cell.val) > 0

\* join_dataframes has run the merge of line 108
merged == merged_df # None

\* the rows of merged_df the exact-key phase produced
exact_rows == {k \in 1..Len(merged_df) : merged_df[k].indicator = Str(Both)}

\* the exact pairs joining row i of goodreads_df and row j of story_graph_df
exact_pairs(i, j) ==
    {k \in exact_rows :
        /\ merged_df[k].goodreads_index = goodreads_df[i].index
        /\ merged_df[k].story_graph_index = story_graph_df[j].index}

\* the two rows carry the same present identifier
same_isbn(i, j) ==
    /\ present(goodreads_df[i].goodreads_isbn)
    /\ present(story_graph_df[j].story_graph_isbn)
    /\ goodreads_df[i].goodreads_isbn = story_graph_df[j].story_graph_isbn

\* C1: once the merge has run, every row of A and row of B with equal,
\* present, non-empty identifiers are joined by exactly one exact pair (so a
\* key held by m rows of A and n rows of B gives m*n pairs), the pair carries
\* the identifiers of its two rows, and no other two rows are joined.
C1_ExactJoin ==
    merged =>
        \A i \in 1..Len(goodreads_df) : \A j \in 1..Len(story_graph_df) :
            /\ Cardinality(exact_pairs(i, j)) = IF same_isbn(i, j) THEN 1 ELSE 0
            /\ \A k \in exact_pairs(i, j) :
                  /\ merged_df[k].goodreads_isbn = goodreads_df[i].goodreads_isbn
                  /\ merged_df[k].story_graph_isbn =
                         story_graph_df[j].story_graph_isbn

\* a key held by two rows of A and two rows of B: four exact pairs
C1_Witness ==
    /\ merged
    /\ \E i1, i2 \in 1..Len(goodreads_df) : \E j1, j2 \in 1..Len(story_graph_df) :
          /\ i1 # i2 /\ j1 # j2
          /\ same_isbn(i1, j1) /\ same_isbn(i2, j2) /\ same_isbn(i1, j2)
    /\ Cardinality(exact_rows) = 4

\* the statements of join_dataframes
JoinPcs == {"goodreads_isbn", "storygraph_isbn", "merge", "goodreads_no_isbn",
            "storygraph_no_isbn", "fuzzy", "concat", "done"}

\* no row of A, or no row of B, has a present identifier
no_keyed_side ==
    \/ \A i \in 1..Len(goodreads_df) : ~present(goodreads_df[i].goodreads_isbn)
    \/ \A j \in 1..Len(story_graph_df) :
           ~present(story_graph_df[j].story_graph_isbn)

\* C2: when A or B has no record with a present identifier, the exact-key
\* phase ends with an empty Matched set and no exception, and the run goes on
\* to the fuzzy phase.
C2_EmptyKeyedSideNoError ==
    (pc \in JoinPcs /\ no_keyed_side) => error = "none"

\* every row of A and every row of B is in an exact pair
all_joined ==
    /\ \A i \in 1..Len(goodreads_df) : \E j \in 1..Len(story_graph_df) :
           exact_pairs(i, j) # {}
    /\ \A j \in 1..Len(story_graph_df) : \E i \in 1..Len(goodreads_df) :
           exact_pairs(i, j) # {}

\* C3: when the exact-key phase joins every record of A and of B (both
\* leftover sets are empty), the run completes without an exception.
C3_AllJoinedCompletes ==
    (merged /\ all_joined) => error = "none"
\* join_dataframes is in, or past, the fuzzy loop
in_fuzzy == pc \in {"fuzzy", "concat", "done"}

\* the loop is done with the pair at positions (sb, ga) of
\* (storygraph_no_isbn, goodreads_no_isbn)
processed(sb, ga) ==
    \/ pc \in {"concat", "done"}
    \/ /\ pc = "fuzzy"
       /\ sb < story_i \/ (sb = story_i /\ ga < goodreads_i)

\* the rows of fuzzy_matches built from that pair
fuzzy_pairs(sb, ga) ==
    {k \in 1..Len(fuzzy_matches) :
        /\ fuzzy_matches[k].story_graph_index = storygraph_no_isbn[sb].index
        /\ fuzzy_matches[k].goodreads_index = goodreads_no_isbn[ga].index}

\* the three predicates of the pair at (sb, ga)
pair_title_match(sb, ga) ==
    title_match_of(storygraph_no_isbn[sb].story_graph_Title,
                   goodreads_no_isbn[ga].goodreads_title)

pair_review_match(sb, ga) ==
    review_match_of(storygraph_no_isbn[sb].story_graph_Review,
                    goodreads_no_isbn[ga].goodreads_review)

pair_author_match(sb, ga) ==
    author_match_of(as_list(storygraph_no_isbn[sb].Authors),
                    as_list(goodreads_no_isbn[ga].author)).value

\* C4: every pair (b, a) of leftover records the loop is done with is in
\* fuzzy_matches exactly once when (title_match and author_match) or
\* review_match, and not at all otherwise; a pair not yet compared is not in it.
C4_FuzzyDecision ==
    in_fuzzy =>
        \A sb \in 1..Len(storygraph_no_isbn) : \A ga \in 1..Len(goodreads_no_isbn) :
            Cardinality(fuzzy_pairs(sb, ga)) =
                IF /\ processed(sb, ga)
                   /\ \/ pair_title_match(sb, ga) /\ pair_author_match(sb, ga)
                      \/ pair_review_match(sb, ga)
                THEN 1 ELSE 0

\* a pass that found title_match and author_match false and review_match
\* true, and appended the pair
C4_Witness ==
    /\ in_fuzzy /\ error = "none"
    /\ ~title_match /\ ~author_match /\ review_match
    /\ fuzzy_matches # <<>>
    /\ \E sb \in 1..Len(storygraph_no_isbn) : \E ga \in 1..Len(goodreads_no_isbn) :
          /\ processed(sb, ga)
          /\ ~pair_title_match(sb, ga) /\ ~pair_author_match(sb, ga)
          /\ fuzzy_matches[Len(fuzzy_matches)].story_graph_index =
                 storygraph_no_isbn[sb].index
          /\ fuzzy_matches[Len(fuzzy_matches)].goodreads_index =
                 goodreads_no_isbn[ga].index

\* goodreads_no_isbn / storygraph_no_isbn have been assigned
goodreads_no_isbn_set ==
    \/ pc \in {"storygraph_no_isbn", "fuzzy", "concat", "done"}
    \/ pc = "goodreads_no_isbn" /\ error # "none"

storygraph_no_isbn_set ==
    \/ pc \in {"fuzzy", "concat", "done"}
    \/ pc = "storygraph_no_isbn" /\ error # "none"

\* the identifiers of the exact pairs
joined_goodreads_isbn == {merged_df[k].goodreads_isbn : k \in exact_rows}

joined_story_graph_isbn == {merged_df[k].story_graph_isbn : k \in exact_rows}

\* row i of A (row j of B) is on the exact-matched side / among the leftovers
goodreads_joined(i) ==
    \E k \in exact_rows : merged_df[k].goodreads_index = goodreads_df[i].index

goodreads_unmatched(i) ==
    \E u \in 1..Len(goodreads_no_isbn) :
        goodreads_no_isbn[u].index = goodreads_df[i].index

story_graph_joined(j) ==
    \E k \in exact_rows : merged_df[k].story_graph_index = story_graph_df[j].index

story_graph_unmatched(j) ==
    \E u \in 1..Len(storygraph_no_isbn) :
        storygraph_no_isbn[u].index = story_graph_df[j].index

\* C5: Unmatched_A is the rows of A, in order, whose identifier is absent,
\* null or empty, or present but equal to no identifier of the join result;
\* every row of A is on the exact-matched side or in Unmatched_A and never in
\* both, so |A| = |A rows in the join| + |Unmatched_A|.  The same for B.
C5_Partition ==
    /\ goodreads_no_isbn_set =>
          /\ goodreads_no_isbn =
                 SelectSeq(goodreads_df, LAMBDA r :
                     \/ ~present(r.goodreads_isbn)
                     \/ r.goodreads_isbn \notin joined_goodreads_isbn)
          /\ \A i \in 1..Len(goodreads_df) :
                 goodreads_joined(i) # goodreads_unmatched(i)
          /\ Len(goodreads_df) =
                 Cardinality({i \in 1..Len(goodreads_df) : goodreads_joined(i)})
                 + Len(goodreads_no_isbn)
    /\ storygraph_no_isbn_set =>
          /\ storygraph_no_isbn =
                 SelectSeq(story_graph_df, LAMBDA r :
                     \/ ~present(r.story_graph_isbn)
                     \/ r.story_graph_isbn \notin joined_story_graph_isbn)
          /\ \A j \in 1..Len(story_graph_df) :
                 story_graph_joined(j) # story_graph_unmatched(j)
          /\ Len(story_graph_df) =
                 Cardinality({j \in 1..Len(story_graph_df) : story_graph_joined(j)})
                 + Len(storygraph_no_isbn)

\* leftovers of both kinds on both sides: a row without identifier and a row
\* whose identifier is in no exact pair
C5_Witness ==
    /\ storygraph_no_isbn_set
    /\ \E u, v \in 1..Len(goodreads_no_isbn) :
          /\ present(goodreads_no_isbn[u].goodreads_isbn)
          /\ ~present(goodreads_no_isbn[v].goodreads_isbn)
    /\ \E u \in 1..Len(storygraph_no_isbn) :
          present(storygraph_no_isbn[u].story_graph_isbn)
    /\ exact_rows # {}

\* the exact pairs a row of A (of B) is in
goodreads_exact_pairs(i) ==
    {k \in exact_rows : merged_df[k].goodreads_index = goodreads_df[i].index}

story_graph_exact_pairs(j) ==
    {k \in exact_rows : merged_df[k].story_graph_index = story_graph_df[j].index}

\* C6 as claimed: in the exact-match phase every record of A and of B is in
\* at most one Matched Pair.
C6_AtMostOneExactPair ==
    merged =>
        /\ \A i \in 1..Len(goodreads_df) :
               Cardinality(goodreads_exact_pairs(i)) <= 1
        /\ \A j \in 1..Len(story_graph_df) :
               Cardinality(story_graph_exact_pairs(j)) <= 1

\* C6 amended: a record is in as many exact pairs as the other side has
\* records with its (present) identifier, hence in at most one exactly when
\* that identifier occurs at most once on the other side.
C6_OnePairPerOppositeKey ==
    merged =>
        /\ \A i \in 1..Len(goodreads_df) :
               Cardinality(goodreads_exact_pairs(i)) =
                   Cardinality({j \in 1..Len(story_graph_df) : same_isbn(i, j)})
        /\ \A j \in 1..Len(story_graph_df) :
               Cardinality(story_graph_exact_pairs(j)) =
                   Cardinality({i \in 1..Len(goodreads_df) : same_isbn(i, j)})

\* a record of A in two exact pairs
C6_Witness ==
    /\ merged
    /\ \E i \in 1..Len(goodreads_df) : Cardinality(goodreads_exact_pairs(i)) = 2

\* C7: the fuzzy loop never raises, whatever field of a leftover record is
\* absent.
C7_FuzzyNeverRaises == pc = "fuzzy" => error = "none"

\* the positions, in (storygraph_no_isbn, goodreads_no_isbn), of the pair the
\* last pass of the loop worked on; <<0, 0>> before the first pass
compared_pair ==
    IF pc \in {"concat", "done"}
    THEN <<Len(storygraph_no_isbn), Len(goodreads_no_isbn)>>
    ELSE IF pc # "fuzzy" THEN <<0, 0>>
    ELSE IF error # "none" THEN <<story_i, goodreads_i>>
    ELSE IF goodreads_i > 1 THEN <<story_i, goodreads_i - 1>>
    ELSE IF story_i > 1 THEN <<story_i - 1, Len(goodreads_no_isbn)>>
    ELSE <<0, 0>>

\* the last pass ran to its end
pass_completed == compared_pair # <<0, 0>> /\ error = "none"

compared_story_row == storygraph_no_isbn[compared_pair[1]]

compared_goodreads_row == goodreads_no_isbn[compared_pair[2]]

\* the author names of a cell: the items of a list, or the one string
author_names(cell) ==
    IF cell.kind = "list" THEN {cell.val[i] : i \in 1..Len(cell.val)}
    ELSE IF cell.kind = "str" THEN {cell.val}
    ELSE {}

\* the similarity of two texts, case-insensitive
similarity(s1, s2) == fuzz_partial_ratio(Lower(s1), Lower(s2))

\* the scores of the cross pairs of the authors of the compared pair
author_scores ==
    {similarity(x, y) : x \in author_names(compared_story_row.Authors),
                        y \in author_names(compared_goodreads_row.author)}

\* C8: after a pass of the loop, author_match is true iff both author lists
\* are non-empty and some cross pair of authors has similarity >= 80.
C8_AuthorExistential ==
    pass_completed =>
        author_match = (\E s \in author_scores : s >= 80)

\* author_match holds although a cross pair of the two lists scores below 80
C8_Witness ==
    /\ pass_completed
    /\ author_match
    /\ \E s \in author_scores : s < 80
    /\ Cardinality(author_names(compared_story_row.Authors)) > 1

\* C9: the threshold is inclusive at 80: a title (review, author) score of
\* exactly 80 makes the predicate true, a score of 79 makes it false.
C9_ThresholdInclusive ==
    pass_completed =>
        /\ (/\ compared_story_row.story_graph_Title.kind = "str"
            /\ compared_goodreads_row.goodreads_title.kind = "str") =>
               LET s == similarity(compared_story_row.story_graph_Title.val,
                                   compared_goodreads_row.goodreads_title.val)
               IN  (s = 80 => title_match) /\ (s = 79 => ~title_match)
        /\ (/\ compared_story_row.story_graph_Review.kind = "str"
            /\ compared_goodreads_row.goodreads_review.kind = "str") =>
               LET s == similarity(compared_story_row.story_graph_Review.val,
                                   compared_goodreads_row.goodreads_review.val)
               IN  (s = 80 => review_match) /\ (s = 79 => ~review_match)
        /\ author_scores # {} =>
               /\ Max(author_scores) = 80 => author_match
               /\ Max(author_scores) = 79 => ~author_match

\* a pass with a title score of 79 (no match) and a review score of 80 (match)
C9_Witness ==
    /\ pass_completed
    /\ compared_story_row.story_graph_Title.kind = "str"
    /\ compared_goodreads_row.goodreads_title.kind = "str"
    /\ similarity(compared_story_row.story_graph_Title.val,
                  compared_goodreads_row.goodreads_title.val) = 79
    /\ ~title_match
    /\ compared_story_row.story_graph_Review.kind = "str"
    /\ compared_goodreads_row.goodreads_review.kind = "str"
    /\ similarity(compared_story_row.story_graph_Review.val,
                  compared_goodreads_row.goodreads_review.val) = 80
    /\ review_match

\* C10: when the Goodreads author of the compared pair is a single string s,
\* the pass raises nothing and decides as it does for the list [s]:
\* author_match, and whether the pair is appended, are those of [s].
C10_ScalarAuthorAsSingleton ==
    (compared_pair # <<0, 0>> /\ compared_goodreads_row.author.kind = "str") =>
        LET as_singleton ==
                author_match_of(
                    as_list(compared_story_row.Authors),
                    as_list(List(<<compared_goodreads_row.author.val>>)))
        IN  /\ error = "none"
            /\ ~as_singleton.raised
            /\ author_match = as_singleton.value
            /\ Cardinality(fuzzy_pairs(compared_pair[1], compared_pair[2])) =
                   IF fuzzy_decision(title_match, as_singleton.value, review_match)
                   THEN 1 ELSE 0

\* a pass on a single-string author that found author_match and appended
C10_Witness ==
    /\ pass_completed
    /\ compared_goodreads_row.author.kind = "str"
    /\ author_match
    /\ fuzzy_pairs(compared_pair[1], compared_pair[2]) # {}
\* C11: a repeated run yields the identical Linked collection: whenever a call
\* of process() has returned, merged_df is the collection a caller took from
\* get_merged_df() after an earlier call (same rows, same multiplicities, same
\* order), and get_merged_df() hands over merged_df itself.
C11_Idempotent ==
    (pc = "done" /\ writer_merged_df # None) => merged_df = writer_merged_df

\* the second call has returned a collection with exact and fuzzy pairs, and
\* the caller holds the collection of the first call
C11_Witness ==
    /\ pc = "done" /\ calls = 2
    /\ writer_merged_df # None
    /\ fuzzy_matches # <<>>
    /\ exact_rows # {}
    /\ Len(merged_df) > Cardinality(exact_rows)
\* the pair at (sb, ga) satisfies the decision rule
pair_decision(sb, ga) ==
    \/ pair_title_match(sb, ga) /\ pair_author_match(sb, ga)
    \/ pair_review_match(sb, ga)

\* the rows of fuzzy_matches that hold leftover record ga of A (sb of B)
goodreads_fuzzy_pairs(ga) ==
    {k \in 1..Len(fuzzy_matches) :
        fuzzy_matches[k].goodreads_index = goodreads_no_isbn[ga].index}

story_graph_fuzzy_pairs(sb) ==
    {k \in 1..Len(fuzzy_matches) :
        fuzzy_matches[k].story_graph_index = storygraph_no_isbn[sb].index}

\* C12: no record leaves the fuzzy phase once matched: a leftover record of A
\* is in as many fuzzy pairs as there are leftover records of B, among those
\* the loop has compared it with, that satisfy the decision rule with it, and
\* the same for a leftover record of B; after the loop that is all k of them.
C12_NoRemovalOnceMatched ==
    in_fuzzy =>
        /\ \A ga \in 1..Len(goodreads_no_isbn) :
               Cardinality(goodreads_fuzzy_pairs(ga)) =
                   Cardinality({sb \in 1..Len(storygraph_no_isbn) :
                                   processed(sb, ga) /\ pair_decision(sb, ga)})
        /\ \A sb \in 1..Len(storygraph_no_isbn) :
               Cardinality(story_graph_fuzzy_pairs(sb)) =
                   Cardinality({ga \in 1..Len(goodreads_no_isbn) :
                                   processed(sb, ga) /\ pair_decision(sb, ga)})

\* after the loop, a leftover record of A is in two fuzzy pairs
C12_Witness ==
    /\ pc \in {"concat", "done"}
    /\ \E ga \in 1..Len(goodreads_no_isbn) :
          /\ Cardinality(goodreads_fuzzy_pairs(ga)) = 2
          /\ Cardinality({sb \in 1..Len(storygraph_no_isbn) :
                             pair_decision(sb, ga)}) = 2
(***************************************************************************)
(* GoodreadsMdProcessor: read_yaml_files and make_goodreads_df             *)
(***************************************************************************)
\* most note files of the directory
MaxFiles == 3

AuthorsPrefix == <<"A","u","t","h","o","r","s","/">>

LinkedFrankHerbert == <<"[","[","A","u","t","h","o","r","s","/","F","r","a","n","k"," ","H","e","r","b","e","r","t","]","]">>

LinkedJaneDoe == <<"[","[","A","u","t","h","o","r","s","/","J","a","n","e"," ","D","o","e","]","]">>

\* a dict without keys
EmptyDict == [k \in {} |-> Null]

\* what yaml.load gives for a note without front matter: None, no dict
NoFrontMatter == [none |-> TRUE]

\* the note files a directory can hold, with the front matter yaml.load gives:
\* a dict that may lack id (or any other key), two notes with the same id,
\* and a note without front matter (yaml.load('') is None)
NotePool == <<
    [filename |-> "Dune - 1.md",
     data |-> [id |-> 1, title |-> Str(Dune), isbn |-> Str(Isbn123),
               author |-> Str(LinkedFrankHerbert)]],
    [filename |-> "Red Mars.md",
     data |-> [title |-> Str(RedMars), isbn |-> Str(EmptyText),
               author |-> Str(FrankHerbert)]],
    [filename |-> "Blue Mars - 1.md",
     data |-> [id |-> 1, title |-> Str(BlueMars), review |-> Str(LovedThis)]],
    [filename |-> "The Lost World - 2.md",
     data |-> [id |-> 2, title |-> Str(TheLostWorld),
               author |-> List(<<LinkedJaneDoe, OctaviaButler>>)]],
    [filename |-> "notes.md", data |-> NoFrontMatter] >>

\* the directories: up to MaxFiles different files, in any glob order
Directories ==
    {[i \in 1..Len(choice) |-> NotePool[choice[i]]] :
        choice \in {c \in UNION {[1..n -> 1..Len(NotePool)] : n \in 0..MaxFiles} :
                       \A i, j \in 1..Len(c) : i # j => c[i] # c[j]}}

RECURSIVE replace(_, _)
\* str.replace(old, ''): every occurrence of old, left to right, is removed
replace(text, old) ==
    IF Len(text) < Len(old) THEN text
    ELSE IF SubSeq(text, 1, Len(old)) = old
    THEN replace(SubSeq(text, Len(old) + 1, Len(text)), old)
    ELSE <<Head(text)>> \o replace(Tail(text), old)

\* lines 67-71: .replace('Authors/', '').replace(']', '').replace('[', '')
unlink(text) == replace(replace(replace(text, AuthorsPrefix), <<"]">>), <<"[">>)

\* lines 51-79: a value that is no dict gives {}; the author value, a list
\* or a str, loses its link markup; every other key is kept
filter_data(data) ==
    IF data = NoFrontMatter THEN EmptyDict
    ELSE [k \in DOMAIN data |->
            IF k # "author" THEN data[k]
            ELSE IF data[k].kind = "list"
            THEN List([i \in 1..Len(data[k].val) |-> unlink(data[k].val[i])])
            ELSE Str(unlink(data[k].val))]

RECURSIVE final_dict(_)
\* lines 116-134: final_dict as the list of its <<gid, record>> items in
\* insertion order; a file without id is left out, a gid already in the dict
\* keeps its place and takes the new record
final_dict(items) ==
    IF items = <<>> THEN <<>>
    ELSE LET before == final_dict(SubSeq(items, 1, Len(items) - 1))
             item == items[Len(items)]
             data == item.data
         IN  IF "id" \notin DOMAIN data THEN before
             ELSE LET record == [k \in (DOMAIN data \ {"id"}) \cup {"filename"} |->
                                    IF k = "filename" THEN item.filename
                                    ELSE data[k]]
                  IN  IF \E n \in 1..Len(before) : before[n][1] = data.id
                      THEN [n \in 1..Len(before) |->
                               IF before[n][1] = data.id
                               THEN <<data.id, record>> ELSE before[n]]
                      ELSE Append(before, <<data.id, record>>)

\* lines 136-139: DataFrame.from_dict(final_dict, orient='index'), then
\* reset_index: one row per key, the columns of all records, NaN where a
\* record lacks the column, id as a column and a new RangeIndex
from_dict(dict) ==
    LET columns == UNION {DOMAIN dict[n][2] : n \in 1..Len(dict)}
    IN  [n \in 1..Len(dict) |->
            [c \in columns \cup {"index", "id"} |->
                IF c = "index" THEN n - 1
                ELSE IF c = "id" THEN dict[n][1]
                ELSE IF c \in DOMAIN dict[n][2] THEN dict[n][2][c]
                ELSE Null]]

\* the state of the integrator while its collaborator is looked at alone
InitGoodreads ==
    /\ directory \in Directories
    /\ yaml_data = <<>>
    /\ goodreads_processor = None
    /\ input_file = <<>>
    /\ story_graph_cleaner = None
    /\ goodreads_df = None
    /\ story_graph_df = None
    /\ merged_df = None
    /\ goodreads_isbn = <<>>
    /\ storygraph_isbn = <<>>
    /\ goodreads_no_isbn = <<>>
    /\ storygraph_no_isbn = <<>>
    /\ fuzzy_matches = <<>>
    /\ story_i = 0
    /\ goodreads_i = 0
    /\ title_match = FALSE
    /\ review_match = FALSE
    /\ author_match = FALSE
    /\ pc = "read_yaml_files"
    /\ error = "none"
    /\ calls = 0
    /\ writer_merged_df = None
    /\ title1 = Null
    /\ title2 = Null
    /\ display_title = Null

\* lines 81-110: all_data[filename] = filter_data(yaml.load(...)) for every
\* file of the directory (every file is read and parses)
read_yaml_files ==
    /\ pc = "read_yaml_files" /\ error = "none"
    /\ yaml_data' = [i \in 1..Len(directory) |->
                        [filename |-> directory[i].filename,
                         data |-> filter_data(directory[i].data)]]
    /\ pc' = "make_goodreads_df"
    /\ UNCHANGED <<goodreads_processor, input_file, story_graph_cleaner,
                   goodreads_df, story_graph_df, merged_df, locals, error,
                   calls, writer_merged_df, directory, title1, title2,
                   display_title>>

\* lines 112-140, after read_yaml_files; line 137 reads df.iloc[0]
make_goodreads_df ==
    /\ pc = "make_goodreads_df" /\ error = "none"
    /\ goodreads_processor' = from_dict(final_dict(yaml_data))
    /\ IF goodreads_processor' = <<>>
       THEN Raise("IndexError")
       ELSE pc' = "get_goodreads_df" /\ UNCHANGED error
    /\ UNCHANGED <<input_file, story_graph_cleaner, goodreads_df,
                   story_graph_df, merged_df, locals, calls, writer_merged_df,
                   directory, yaml_data, title1, title2, display_title>>

\* lines 142-146: get_goodreads_df builds the frame when there is none
NextGoodreads ==
    \/ read_yaml_files
    \/ make_goodreads_df

SpecGoodreads == InitGoodreads /\ [][NextGoodreads]_vars

\* make_goodreads_df has returned the frame
goodreads_made == pc = "get_goodreads_df" /\ error = "none"

\* C13: the Goodreads collection has one record per note file, whatever ids
\* the files carry.
C13_OneRecordPerFile ==
    goodreads_made => Len(goodreads_processor) = Len(directory)
\* the rows of merged_df that the fuzzy loop found (they have no _merge value)
fuzzy_rows == {k \in 1..Len(merged_df) : merged_df[k].indicator = Null}

\* the positions, in Unmatched_B and in Unmatched_A, of the records of a row
story_graph_position(row) ==
    CHOOSE sb \in 1..Len(storygraph_no_isbn) :
        storygraph_no_isbn[sb].index = row.story_graph_index

goodreads_position(row) ==
    CHOOSE ga \in 1..Len(goodreads_no_isbn) :
        goodreads_no_isbn[ga].index = row.goodreads_index

\* row1 is discovered before row2 in a B-outer, A-inner scan
discovered_before(row1, row2) ==
    \/ story_graph_position(row1) < story_graph_position(row2)
    \/ /\ story_graph_position(row1) = story_graph_position(row2)
       /\ goodreads_position(row1) < goodreads_position(row2)

C15_InputsUnchanged ==
    [][(pc \in JoinPcs \ {"done"}) =>
           /\ goodreads_df' = goodreads_df
           /\ story_graph_df' = story_graph_df]_vars

\* join_dataframes has returned, after taking a proper part of each input
\* as its leftovers and linking exact and fuzzy pairs
C15_Witness ==
    /\ pc = "done" /\ calls = 1
    /\ Len(goodreads_no_isbn) < Len(goodreads_df)
    /\ Len(storygraph_no_isbn) < Len(story_graph_df)
    /\ exact_rows # {} /\ fuzzy_rows # {}
    /\ goodreads_df = goodreads_processor
    /\ story_graph_df = rename(input_file, story_graph_columns)

(***************************************************************************)
(* BookDataWriter.clean_title                                              *)
(***************************************************************************)
\* string.printable: digits, letters, punctuation and whitespace (without the
\* backquote and the vertical tab, which a TLA+ string cannot hold and no
\* title here has)
printable ==
    {"0", "1", "2", "3", "4", "5", "6", "7", "8", "9", "a", "b", "c", "d",
     "e", "f", "g", "h", "i", "j", "k", "l", "m", "n", "o", "p", "q", "r",
     "s", "t", "u", "v", "w", "x", "y", "z", "A", "B", "C", "D", "E", "F",
     "G", "H", "I", "J", "K", "L", "M", "N", "O", "P", "Q", "R", "S", "T",
     "U", "V", "W", "X", "Y", "Z", "!", "\"", "#", "$", "%", "&", "'", "(",
     ")", "*", "+", ",", "-", ".", "/", ":", ";", "<", "=", ">", "?", "@",
     "[", "\\", "]", "^", "_", "{", "|", "}", "~", " ", "\t", "\n",
     "\r", "\f"}

Ab == <<"a","b">>

Abc == <<"a","b","c">>

\* a title with brackets, braces, an underscore and a character (e acute,
\* U+00E9) that is not in string.printable
Decorated == <<"[","D","u","n","e","]","_","{","U+00E9","}">>

\* the titles clean_title is called with
TitlePool == {Dune, DUNE, RedMars, RedMarsTheLostWorld, Ab, Abc, Decorated}

\* line 140: ''.join(char for char in text if char in string.printable)
remove_non_printable(text) == SelectSeq(text, LAMBDA c : c \in printable)

\* the characters of a str
chars_of(text) == {text[i] : i \in 1..Len(text)}

\* lines 157-160: title.split(':', maxsplit=1) when ':' is in the title; the
\* value is then the list [before, after], no str
split_colon(text) ==
    IF ":" \in chars_of(text)
    THEN LET at == Min({i \in 1..Len(text) : text[i] = ":"})
         IN  List(<<SubSeq(text, 1, at - 1), SubSeq(text, at + 1, Len(text))>>)
    ELSE Str(text)

RECURSIVE strip(_, _)
\* lines 161-163 on one str: .replace(char, '') for each char of '[](){}_'
strip(text, stripped) ==
    IF stripped = <<>> THEN text
    ELSE strip(replace(text, <<Head(stripped)>>), Tail(stripped))

RECURSIVE reduce(_, _, _)
\* lines 171-175: for every char of unique_chars that is not in both titles,
\* the char is removed from both; the pair <<title1, title2>> that is left
reduce(unique_chars, t1, t2) ==
    IF unique_chars = {} THEN <<t1, t2>>
    ELSE LET char == CHOOSE c \in unique_chars : TRUE
         IN  IF char \in chars_of(t1) /\ char \in chars_of(t2)
             THEN reduce(unique_chars \ {char}, t1, t2)
             ELSE reduce(unique_chars \ {char},
                         replace(t1, <<char>>), replace(t2, <<char>>))

\* line 183: f'*{title1} + {title2}*'
marker(t1, t2) == <<"*">> \o t1 \o <<" ", "+", " ">> \o t2 \o <<"*">>

\* the writer calls clean_title(title1, title2) with two titles
InitTitle ==
    /\ title1 \in {Str(t) : t \in TitlePool}
    /\ title2 \in {Str(t) : t \in TitlePool}
    /\ display_title = Null
    /\ pc = "clean_title"
    /\ error = "none"
    /\ directory = <<>>
    /\ yaml_data = <<>>
    /\ goodreads_processor = None
    /\ input_file = <<>>
    /\ story_graph_cleaner = None
    /\ goodreads_df = None
    /\ story_graph_df = None
    /\ merged_df = None
    /\ goodreads_isbn = <<>>
    /\ storygraph_isbn = <<>>
    /\ goodreads_no_isbn = <<>>
    /\ storygraph_no_isbn = <<>>
    /\ fuzzy_matches = <<>>
    /\ story_i = 0
    /\ goodreads_i = 0
    /\ title_match = FALSE
    /\ review_match = FALSE
    /\ author_match = FALSE
    /\ calls = 0
    /\ writer_merged_df = None

\* what clean_title leaves alone
integrator == <<goodreads_processor, input_file, story_graph_cleaner,
                goodreads_df, story_graph_df, merged_df, locals, calls,
                writer_merged_df, directory, yaml_data>>

\* lines 155-160
clean_title_split ==
    /\ pc = "clean_title" /\ error = "none"
    /\ title1' = split_colon(remove_non_printable(title1.val))
    /\ title2' = split_colon(remove_non_printable(title2.val))
    /\ pc' = "clean_title_strip"
    /\ UNCHANGED <<integrator, display_title, error>>

\* lines 161-163: a list has no replace(); title1.replace comes first, so
\* when only title2 is a list, title1 has lost its '[' before the call raises
clean_title_strip ==
    /\ pc = "clean_title_strip" /\ error = "none"
    /\ IF title1.kind = "list"
       THEN /\ Raise("AttributeError")
            /\ UNCHANGED <<title1, title2>>
       ELSE IF title2.kind = "list"
       THEN /\ Raise("AttributeError")
            /\ title1' = Str(replace(title1.val, <<"[">>))
            /\ UNCHANGED title2
       ELSE /\ title1' = Str(strip(title1.val, <<"[","]","(",")","{","}","_">>))
            /\ title2' = Str(strip(title2.val, <<"[","]","(",")","{","}","_">>))
            /\ pc' = "clean_title_reduce"
            /\ UNCHANGED error
    /\ UNCHANGED <<integrator, display_title>>

\* lines 164-175: combined_string = title1 + title1, so unique_chars holds
\* the characters of title1 only
clean_title_reduce ==
    /\ pc = "clean_title_reduce" /\ error = "none"
    /\ LET combined_string == title1.val \o title1.val
           unique_chars == chars_of(combined_string)
           reduced == reduce(unique_chars, title1.val, title2.val)
       IN  /\ title1' = Str(reduced[1])
           /\ title2' = Str(reduced[2])
    /\ pc' = "clean_title_return"
    /\ UNCHANGED <<integrator, display_title, error>>

\* lines 181-183
clean_title_return ==
    /\ pc = "clean_title_return" /\ error = "none"
    /\ display_title' = IF title1 = title2 THEN title1
                        ELSE Str(marker(title1.val, title2.val))
    /\ pc' = "returned"
    /\ UNCHANGED <<integrator, title1, title2, error>>

clean_title ==
    \/ clean_title_split
    \/ clean_title_strip
    \/ clean_title_reduce
    \/ clean_title_return

SpecTitle == InitTitle /\ [][clean_title]_vars

\* clean_title is past its split (lines 157-160)
after_split ==
    pc \in {"clean_title_strip", "clean_title_reduce", "clean_title_return",
            "returned"}

\* C16: a title with a colon is cut down to the segment before its first
\* colon, and clean_title goes on to strip and reduce it without raising:
\* after the split both titles are strings without a colon and no step raises.
C16_ColonTitleCleaned ==
    after_split =>
        /\ title1.kind = "str" /\ ":" \notin chars_of(title1.val)
        /\ title2.kind = "str" /\ ":" \notin chars_of(title2.val)
        /\ error = "none"

\* C17: for colon-free titles the reduction leaves no character in one title
\* that the other lacks, and the value returned is the reduced title when
\* the two are equal and the marker of both otherwise.
C17_CommonCharacters ==
    (pc \in {"clean_title_return", "returned"}) =>
        /\ chars_of(title1.val) = chars_of(title2.val)
        /\ pc = "returned" =>
               display_title = IF title1 = title2 THEN title1
                               ELSE Str(marker(title1.val, title2.val))
\* C18: the two phases never link the same combination twice: no record of
\* an exact pair is among the leftovers the fuzzy loop compares, so no fuzzy
\* pair holds a record, or a combination, of an exact pair, and no fuzzy
\* pair joins two records with present and equal identifiers.
C18_PhasesDisjoint ==
    in_fuzzy =>
        /\ \A e \in exact_rows :
               /\ \A ga \in 1..Len(goodreads_no_isbn) :
                      goodreads_no_isbn[ga].index # merged_df[e].goodreads_index
               /\ \A sb \in 1..Len(storygraph_no_isbn) :
                      storygraph_no_isbn[sb].index # merged_df[e].story_graph_index
        /\ \A f \in 1..Len(fuzzy_matches) :
               /\ \A e \in exact_rows :
                      ~ /\ merged_df[e].goodreads_index =
                               fuzzy_matches[f].goodreads_index
                        /\ merged_df[e].story_graph_index =
                               fuzzy_matches[f].story_graph_index
               /\ ~ /\ present(fuzzy_matches[f].goodreads_isbn)
                    /\ present(fuzzy_matches[f].story_graph_isbn)
                    /\ fuzzy_matches[f].goodreads_isbn =
                           fuzzy_matches[f].story_graph_isbn

\* a Linked collection with exact pairs and with a fuzzy pair one of whose
\* records has an identifier
C18_Witness ==
    /\ pc = "done"
    /\ exact_rows # {}
    /\ \E f \in fuzzy_rows :
          \/ present(merged_df[f].story_graph_isbn)
          \/ present(merged_df[f].goodreads_isbn)
====
